---------------------------- MODULE Spec2Model ----------------------------
(***************************************************************************)
(* Model of the structured-extraction routines of                          *)
(* packages/content/scripts/build-bruhsailer-guide.py:                     *)
(*   to_ascii, extract_items_from_text, extract_stats_from_text,           *)
(*   split_into_instructions, parse_gp_stack.                              *)
(*                                                                         *)
(* A text is a sequence of characters; a character is a one-letter string  *)
(* for printable ASCII and a symbolic name for the others ("TAB",          *)
(* "ENDASH", ...).  The regular expressions of the source are kept as      *)
(* syntax trees and run by a backtracking matcher that yields the          *)
(* candidate end positions in the priority order of Python's re module     *)
(* (greedy before shorter, alternatives left to right), so that search,    *)
(* finditer and the capture groups are computed as the code computes them. *)
(***************************************************************************)
EXTENDS Integers, Sequences, FiniteSets, TLC

\* text, pc and the five results belong to the single-call specifications;
\* calls holds the frames of the calls in progress (argument, position,
\* local collections, returned value) and tables the module-level tables
VARIABLES text, pc, instructions, items, stats, gp, ascii, calls, tables

vars == <<text, pc, instructions, items, stats, gp, ascii, calls, tables>>

-----------------------------------------------------------------------------
(* Characters *)

LowerSeq == <<"a","b","c","d","e","f","g","h","i","j","k","l","m",
              "n","o","p","q","r","s","t","u","v","w","x","y","z">>
UpperSeq == <<"A","B","C","D","E","F","G","H","I","J","K","L","M",
              "N","O","P","Q","R","S","T","U","V","W","X","Y","Z">>
DigitSeq == <<"0","1","2","3","4","5","6","7","8","9">>

LowerLetters == {LowerSeq[i] : i \in 1..26}
UpperLetters == {UpperSeq[i] : i \in 1..26}
Letters == LowerLetters \cup UpperLetters
Digits == {DigitSeq[i] : i \in 1..10}

\* \s of the re module restricted to the characters of the model
Whitespace == {" ", "TAB", "NEWLINE", "NBSP"}

\* \w of the re module restricted to the characters of the model
WordChars == Letters \cup Digits \cup {"_", "EACUTE", "FI", "CJK"}

\* str.lower() on one character
LowerChar(c) ==
    IF c \in UpperLetters
    THEN LowerSeq[CHOOSE i \in 1..26 : UpperSeq[i] = c]
    ELSE c

\* str.upper() on one character
UpperChar(c) ==
    IF c \in LowerLetters
    THEN UpperSeq[CHOOSE i \in 1..26 : LowerSeq[i] = c]
    ELSE c

\* str.lower()
Lower(s) == [i \in 1..Len(s) |-> LowerChar(s[i])]

\* int() on one decimal digit
DigitVal(c) == (CHOOSE i \in 1..10 : DigitSeq[i] = c) - 1

\* int() on a string of decimal digits (Python integers are unbounded)
RECURSIVE ToInt(_)
ToInt(s) ==
    IF s = <<>> THEN 0
    ELSE 10 * ToInt(SubSeq(s, 1, Len(s) - 1)) + DigitVal(s[Len(s)])

\* s[a:b] for positions a <= b counted from 1, b exclusive
Slice(s, a, b) == SubSeq(s, a, b - 1)

\* str.strip(): drop leading and trailing whitespace
RECURSIVE LStrip(_)
LStrip(s) ==
    IF s # <<>> /\ s[1] \in Whitespace THEN LStrip(Tail(s)) ELSE s

RECURSIVE RStrip(_)
RStrip(s) ==
    IF s # <<>> /\ s[Len(s)] \in Whitespace
    THEN RStrip(SubSeq(s, 1, Len(s) - 1))
    ELSE s

Strip(s) == RStrip(LStrip(s))

-----------------------------------------------------------------------------
(* Regular expressions: syntax trees *)

Cls(S) == [k |-> "cls", s |-> S]
Cat(rs) == [k |-> "cat", r |-> rs]
Alt(rs) == [k |-> "alt", r |-> rs]
\* r{lo,hi}; bounded = FALSE stands for no upper limit (r*, r+)
Rep(r, lo, hi) == [k |-> "rep", r |-> r, lo |-> lo, hi |-> hi,
                   bounded |-> TRUE, greedy |-> TRUE]
Star(r) == [k |-> "rep", r |-> r, lo |-> 0, hi |-> 0,
            bounded |-> FALSE, greedy |-> TRUE]
Plus(r) == [k |-> "rep", r |-> r, lo |-> 1, hi |-> 0,
            bounded |-> FALSE, greedy |-> TRUE]
LazyPlus(r) == [k |-> "rep", r |-> r, lo |-> 1, hi |-> 0,
                bounded |-> FALSE, greedy |-> FALSE]
Opt(r) == Rep(r, 0, 1)
WordBoundary == [k |-> "wb"]
EndOfText == [k |-> "end"]
Ahead(r) == [k |-> "ahead", r |-> r]
Behind(r) == [k |-> "behind", r |-> r]
\* . without re.DOTALL: any character but a newline
Dot == [k |-> "dot"]

\* a literal word, matched as written
Lit(w) == Cat([i \in 1..Len(w) |-> Cls({w[i]})])
\* a literal word under re.IGNORECASE
LitI(w) == Cat([i \in 1..Len(w) |-> Cls({LowerChar(w[i]), UpperChar(w[i])})])

IsWordAt(t, i) == i >= 1 /\ i <= Len(t) /\ t[i] \in WordChars

RECURSIVE Ends(_, _, _)
RECURSIVE EndsFromAll(_, _, _, _)
RECURSIVE CatEnds(_, _, _, _)
RECURSIVE AltEnds(_, _, _, _)
RECURSIVE RepEnds(_, _, _, _)
RECURSIVE RepFromAll(_, _, _, _, _)

\* The positions at which a match of re starting at position i of t can end,
\* in the order the backtracking matcher tries them.
Ends(re, t, i) ==
    CASE re.k = "cls" ->
           IF i <= Len(t) /\ t[i] \in re.s THEN <<i + 1>> ELSE <<>>
      [] re.k = "dot" ->
           IF i <= Len(t) /\ t[i] # "NEWLINE" THEN <<i + 1>> ELSE <<>>
      [] re.k = "cat" -> CatEnds(re.r, 1, t, <<i>>)
      [] re.k = "alt" -> AltEnds(re.r, 1, t, i)
      [] re.k = "rep" -> RepEnds(re, t, i, 0)
      [] re.k = "wb" ->
           IF IsWordAt(t, i - 1) # IsWordAt(t, i) THEN <<i>> ELSE <<>>
      [] re.k = "end" ->
           IF i = Len(t) + 1 \/ (i = Len(t) /\ t[i] = "NEWLINE")
           THEN <<i>> ELSE <<>>
      [] re.k = "ahead" ->
           IF Ends(re.r, t, i) # <<>> THEN <<i>> ELSE <<>>
      [] re.k = "behind" ->
           IF i > 1 /\ Ends(re.r, t, i - 1) = <<i>> THEN <<i>> ELSE <<>>

\* the ends of re from each of the start positions, in order
EndsFromAll(re, t, starts, j) ==
    IF j > Len(starts) THEN <<>>
    ELSE Ends(re, t, starts[j]) \o EndsFromAll(re, t, starts, j + 1)

CatEnds(rs, n, t, starts) ==
    IF n > Len(rs) \/ starts = <<>> THEN starts
    ELSE CatEnds(rs, n + 1, t, EndsFromAll(rs[n], t, starts, 1))

AltEnds(rs, n, t, i) ==
    IF n > Len(rs) THEN <<>>
    ELSE Ends(rs[n], t, i) \o AltEnds(rs, n + 1, t, i)

RepEnds(re, t, i, n) ==
    LET step == SelectSeq(Ends(re.r, t, i), LAMBDA e : e > i)
        more == IF re.bounded /\ n >= re.hi THEN <<>>
                ELSE RepFromAll(re, t, step, 1, n + 1)
        stop == IF n >= re.lo THEN <<i>> ELSE <<>>
    IN  IF re.greedy THEN more \o stop ELSE stop \o more

RepFromAll(re, t, starts, j, n) ==
    IF j > Len(starts) THEN <<>>
    ELSE RepEnds(re, t, starts[j], n) \o RepFromAll(re, t, starts, j + 1, n)

\* A pattern is the sequence of its top-level parts (each capture group is
\* one part).  A match is the sequence of boundaries <<b0, b1, ..., bn>>:
\* part j spans the positions b(j-1) .. b(j)-1.  No match is <<>>.
RECURSIVE MatchFrom(_, _, _, _)
RECURSIVE TryEnds(_, _, _, _, _)

MatchFrom(parts, n, t, pos) ==
    IF n > Len(parts) THEN <<pos>>
    ELSE LET rest == TryEnds(parts, n, t, Ends(parts[n], t, pos), 1)
         IN  IF rest = <<>> THEN <<>> ELSE <<pos>> \o rest

TryEnds(parts, n, t, es, j) ==
    IF j > Len(es) THEN <<>>
    ELSE LET m == MatchFrom(parts, n + 1, t, es[j])
         IN  IF m # <<>> THEN m ELSE TryEnds(parts, n, t, es, j + 1)

\* re.search from position from: the leftmost match
RECURSIVE Search(_, _, _)
Search(parts, t, from) ==
    IF from > Len(t) + 1 THEN <<>>
    ELSE LET m == MatchFrom(parts, 1, t, from)
         IN  IF m # <<>> THEN m ELSE Search(parts, t, from + 1)

\* re.finditer: the successive non-overlapping matches, left to right
RECURSIVE FindIter(_, _, _)
FindIter(parts, t, from) ==
    LET m == Search(parts, t, from)
    IN  IF m = <<>> THEN <<>>
        ELSE LET e == m[Len(m)]
             IN  <<m>> \o FindIter(parts, t, IF e = m[1] THEN e + 1 ELSE e)

\* match.group(n) when group n is part p of the pattern
Group(t, m, p) == Slice(t, m[p], m[p + 1])

-----------------------------------------------------------------------------
(* to_ascii *)

\* the characters of the model outside ASCII
NonAscii == {"RSQUOTE", "LSQUOTE", "LDQUOTE", "RDQUOTE", "ENDASH", "EMDASH",
             "ELLIPSIS", "NBSP", "EACUTE", "COMBACUTE", "FI", "CJK"}

\* the chain of str.replace calls, for one character
ReplaceSmart(c) ==
    CASE c = "RSQUOTE" -> <<"'">>
      [] c = "LSQUOTE" -> <<"'">>
      [] c = "LDQUOTE" -> <<"QUOTE">>
      [] c = "RDQUOTE" -> <<"QUOTE">>
      [] c = "ENDASH" -> <<"-">>
      [] c = "EMDASH" -> <<"-">>
      [] c = "ELLIPSIS" -> <<".", ".", ".">>
      [] OTHER -> <<c>>

\* unicodedata.normalize("NFKD", .), for one character: e with acute accent
\* decomposes to e and a combining accent, the fi ligature to f and i, the
\* no-break space to a space, the ellipsis to three dots
NFKD(c) ==
    CASE c = "EACUTE" -> <<"e", "COMBACUTE">>
      [] c = "FI" -> <<"f", "i">>
      [] c = "NBSP" -> <<" ">>
      [] c = "ELLIPSIS" -> <<".", ".", ".">>
      [] OTHER -> <<c>>

\* the chain of str.replace calls
RECURSIVE ReplaceAllSmart(_)
ReplaceAllSmart(s) ==
    IF s = <<>> THEN <<>> ELSE ReplaceSmart(s[1]) \o ReplaceAllSmart(Tail(s))

\* unicodedata.normalize("NFKD", .)
RECURSIVE Normalize(_)
Normalize(s) ==
    IF s = <<>> THEN <<>> ELSE NFKD(s[1]) \o Normalize(Tail(s))

\* .encode("ascii", "ignore").decode("ascii")
AsciiOnly(s) == SelectSeq(s, LAMBDA c : c \notin NonAscii)

\* re.sub(pattern, repl, t): every match of finditer replaced by repl
RECURSIVE SubFrom(_, _, _, _, _)
SubFrom(t, ms, j, repl, from) ==
    IF j > Len(ms) THEN Slice(t, from, Len(t) + 1)
    ELSE Slice(t, from, ms[j][1]) \o repl
         \o SubFrom(t, ms, j + 1, repl, ms[j][Len(ms[j])])

Sub(parts, repl, t) == SubFrom(t, FindIter(parts, t, 1), 1, repl, 1)

\* r"\s+"
whitespace_run == << Plus(Cls(Whitespace)) >>

\* to_ascii without the strip that follows the whitespace substitution
to_ascii_no_final_strip(value) ==
    LET stripped == Strip(value)
        replaced == ReplaceAllSmart(stripped)
        decomposed == Normalize(replaced)
        encoded == AsciiOnly(decomposed)
    IN  Sub(whitespace_run, <<" ">>, encoded)

to_ascii(value) ==
    LET stripped == Strip(value)
        replaced == ReplaceAllSmart(stripped)
        decomposed == Normalize(replaced)
        encoded == AsciiOnly(decomposed)
    IN  Strip(Sub(whitespace_run, <<" ">>, encoded))

-----------------------------------------------------------------------------
(* Vocabularies *)

SKILLS ==
    { <<"a","t","t","a","c","k">>, <<"d","e","f","e","n","c","e">>,
      <<"d","e","f","e","n","s","e">>, <<"s","t","r","e","n","g","t","h">>,
      <<"h","i","t","p","o","i","n","t","s">>, <<"h","p">>,
      <<"r","a","n","g","e","d">>, <<"r","a","n","g","e">>,
      <<"p","r","a","y","e","r">>, <<"m","a","g","i","c">>,
      <<"c","o","o","k","i","n","g">>,
      <<"w","o","o","d","c","u","t","t","i","n","g">>, <<"w","c">>,
      <<"f","l","e","t","c","h","i","n","g">>, <<"f","i","s","h","i","n","g">>,
      <<"f","i","r","e","m","a","k","i","n","g">>, <<"f","m">>,
      <<"c","r","a","f","t","i","n","g">>, <<"s","m","i","t","h","i","n","g">>,
      <<"m","i","n","i","n","g">>, <<"h","e","r","b","l","o","r","e">>,
      <<"a","g","i","l","i","t","y">>, <<"t","h","i","e","v","i","n","g">>,
      <<"s","l","a","y","e","r">>, <<"f","a","r","m","i","n","g">>,
      <<"r","u","n","e","c","r","a","f","t">>,
      <<"r","u","n","e","c","r","a","f","t","i","n","g">>, <<"r","c">>,
      <<"h","u","n","t","e","r">>,
      <<"c","o","n","s","t","r","u","c","t","i","o","n">> }

\* pairs <<key, value>> of the dict
SKILL_CANONICAL ==
    { <<<<"d","e","f","e","n","c","e">>, <<"D","e","f","e","n","c","e">>>>,
      <<<<"d","e","f","e","n","s","e">>, <<"D","e","f","e","n","c","e">>>>,
      <<<<"h","p">>, <<"H","i","t","p","o","i","n","t","s">>>>,
      <<<<"r","a","n","g","e">>, <<"R","a","n","g","e","d">>>>, <<<<"w","c">>,
      <<"W","o","o","d","c","u","t","t","i","n","g">>>>, <<<<"f","m">>,
      <<"F","i","r","e","m","a","k","i","n","g">>>>, <<<<"r","c">>,
      <<"R","u","n","e","c","r","a","f","t">>>>,
      <<<<"r","u","n","e","c","r","a","f","t","i","n","g">>,
      <<"R","u","n","e","c","r","a","f","t">>>>, <<<<"a","t","t","a","c","k">>,
      <<"A","t","t","a","c","k">>>>, <<<<"s","t","r","e","n","g","t","h">>,
      <<"S","t","r","e","n","g","t","h">>>>,
      <<<<"h","i","t","p","o","i","n","t","s">>,
      <<"H","i","t","p","o","i","n","t","s">>>>, <<<<"r","a","n","g","e","d">>,
      <<"R","a","n","g","e","d">>>>, <<<<"p","r","a","y","e","r">>,
      <<"P","r","a","y","e","r">>>>, <<<<"m","a","g","i","c">>,
      <<"M","a","g","i","c">>>>, <<<<"c","o","o","k","i","n","g">>,
      <<"C","o","o","k","i","n","g">>>>,
      <<<<"w","o","o","d","c","u","t","t","i","n","g">>,
      <<"W","o","o","d","c","u","t","t","i","n","g">>>>,
      <<<<"f","l","e","t","c","h","i","n","g">>,
      <<"F","l","e","t","c","h","i","n","g">>>>,
      <<<<"f","i","s","h","i","n","g">>, <<"F","i","s","h","i","n","g">>>>,
      <<<<"f","i","r","e","m","a","k","i","n","g">>,
      <<"F","i","r","e","m","a","k","i","n","g">>>>,
      <<<<"c","r","a","f","t","i","n","g">>,
      <<"C","r","a","f","t","i","n","g">>>>,
      <<<<"s","m","i","t","h","i","n","g">>,
      <<"S","m","i","t","h","i","n","g">>>>, <<<<"m","i","n","i","n","g">>,
      <<"M","i","n","i","n","g">>>>, <<<<"h","e","r","b","l","o","r","e">>,
      <<"H","e","r","b","l","o","r","e">>>>, <<<<"a","g","i","l","i","t","y">>,
      <<"A","g","i","l","i","t","y">>>>, <<<<"t","h","i","e","v","i","n","g">>,
      <<"T","h","i","e","v","i","n","g">>>>, <<<<"s","l","a","y","e","r">>,
      <<"S","l","a","y","e","r">>>>, <<<<"f","a","r","m","i","n","g">>,
      <<"F","a","r","m","i","n","g">>>>,
      <<<<"r","u","n","e","c","r","a","f","t">>,
      <<"R","u","n","e","c","r","a","f","t">>>>, <<<<"h","u","n","t","e","r">>,
      <<"H","u","n","t","e","r">>>>,
      <<<<"c","o","n","s","t","r","u","c","t","i","o","n">>,
      <<"C","o","n","s","t","r","u","c","t","i","o","n">>>> }

\* pairs <<key, value>> of the dict
number_words ==
    { <<<<"a">>, 1>>, <<<<"a","n">>, 1>>, <<<<"o","n","e">>, 1>>,
      <<<<"t","w","o">>, 2>>, <<<<"t","h","r","e","e">>, 3>>,
      <<<<"f","o","u","r">>, 4>>, <<<<"f","i","v","e">>, 5>>, <<<<"s","i","x">>,
      6>>, <<<<"s","e","v","e","n">>, 7>>, <<<<"e","i","g","h","t">>, 8>>,
      <<<<"n","i","n","e">>, 9>>, <<<<"t","e","n">>, 10>>,
      <<<<"e","l","e","v","e","n">>, 11>>, <<<<"t","w","e","l","v","e">>, 12>>,
      <<<<"t","h","i","r","t","e","e","n">>, 13>>,
      <<<<"f","o","u","r","t","e","e","n">>, 14>>,
      <<<<"f","i","f","t","e","e","n">>, 15>>,
      <<<<"s","i","x","t","e","e","n">>, 16>>,
      <<<<"s","e","v","e","n","t","e","e","n">>, 17>>,
      <<<<"e","i","g","h","t","e","e","n">>, 18>>,
      <<<<"n","i","n","e","t","e","e","n">>, 19>>,
      <<<<"t","w","e","n","t","y">>, 20>>, <<<<"t","h","i","r","t","y">>, 30>>,
      <<<<"f","o","r","t","y">>, 40>>, <<<<"f","i","f","t","y">>, 50>> }

skip_words ==
    { <<"g","p">>, <<"g","o","l","d">>, <<"c","o","i","n","s">>,
      <<"t","i","m","e","s">>, <<"m","i","n","u","t","e","s">>,
      <<"s","e","c","o","n","d","s">>, <<"s","t","e","p","s">>,
      <<"t","i","l","e","s">>, <<"w","o","r","l","d","s">>,
      <<"w","o","r","l","d">>, <<"s","w","a","g">>, <<"l","o","o","k">>,
      <<"f","e","m","a","l","e">>, <<"c","h","a","r","a","c","t","e","r">>,
      <<"m","a","l","e">>, <<"a","c","c","o","u","n","t">>, <<"s","t","e","p">>,
      <<"a","u","t","h","e","n","t","i","c","a","t","o","r">>,
      <<"g","u","i","d","e">>, <<"q","u","e","s","t">>,
      <<"q","u","e","s","t","s">>, <<"d","i","a","r","y">>,
      <<"d","i","a","r","i","e","s">>, <<"t","a","s","k">>,
      <<"t","a","s","k","s">>, <<"l","e","v","e","l">>,
      <<"l","e","v","e","l","s">>, <<"x","p">>, <<"e","x","p">>,
      <<"e","x","p","e","r","i","e","n","c","e">>,
      <<"c","h","a","p","t","e","r">>, <<"s","e","c","t","i","o","n">>,
      <<"m","o","r","e">>, <<"p","o","i","n","t">>, <<"p","o","i","n","t","s">>,
      <<"l","a","p">>, <<"l","a","p","s">>, <<"r","u","n">>,
      <<"r","u","n","s">>, <<"t","r","i","p">>, <<"t","r","i","p","s">>,
      <<"k","i","l","l">>, <<"k","i","l","l","s">>, <<"t","i","m","e">>,
      <<"h","o","u","r">>, <<"h","o","u","r","s">>, <<"d","a","y">>,
      <<"d","a","y","s">>, <<"w","e","e","k">>, <<"w","e","e","k","s">>,
      <<"n","o","r","t","h">>, <<"s","o","u","t","h">>, <<"e","a","s","t">>,
      <<"w","e","s","t">>, <<"n","o","r","t","h","w","e","s","t">>,
      <<"n","o","r","t","h","e","a","s","t">>,
      <<"s","o","u","t","h","w","e","s","t">>,
      <<"s","o","u","t","h","e","a","s","t">>, <<"w","a","y">>,
      <<"p","a","t","h">>, <<"r","o","u","t","e">>, <<"s","p","o","t">>,
      <<"p","l","a","c","e">>, <<"l","o","c","a","t","i","o","n">>,
      <<"a","r","e","a">>, <<"r","o","o","m">>, <<"f","l","o","o","r">>,
      <<"t","o","t","a","l">>, <<"r","e","q","u","i","r","e","d">>,
      <<"o","p","t","i","o","n","a","l">>,
      <<"r","e","c","o","m","m","e","n","d","e","d">>, <<"e","x","t","r","a">>,
      <<"s","p","a","r","e">> }

\* dict.get(key, default) on a dict given by its pairs
DictGet(d, key, default) ==
    IF \E p \in d : p[1] = key
    THEN (CHOOSE p \in d : p[1] = key)[2]
    ELSE default

\* str.title(): a letter is upper-cased unless it follows a letter
Title(s) ==
    [i \in 1..Len(s) |->
        IF i > 1 /\ s[i - 1] \in Letters
        THEN LowerChar(s[i]) ELSE UpperChar(s[i])]

\* str.split(): the maximal runs of non-whitespace characters
RECURSIVE SplitWs(_)
SplitWs(s) ==
    LET t == LStrip(s)
        n == IF \E i \in 1..Len(t) : t[i] \in Whitespace
             THEN (CHOOSE i \in 1..Len(t) :
                      /\ t[i] \in Whitespace
                      /\ \A j \in 1..(i - 1) : t[j] \notin Whitespace) - 1
             ELSE Len(t)
    IN  IF t = <<>> THEN <<>>
        ELSE <<SubSeq(t, 1, n)>> \o SplitWs(SubSeq(t, n + 1, Len(t)))

\* sub in s, for strings
Contains(s, sub) ==
    \E i \in 1..(Len(s) - Len(sub) + 1) : SubSeq(s, i, i + Len(sub) - 1) = sub

\* s.endswith(suffix)
EndsWith(s, suffix) ==
    /\ Len(s) >= Len(suffix)
    /\ SubSeq(s, Len(s) - Len(suffix) + 1, Len(s)) = suffix

\* s.rstrip(c) for one character c
RECURSIVE RStripChar(_, _)
RStripChar(s, c) ==
    IF s # <<>> /\ s[Len(s)] = c
    THEN RStripChar(SubSeq(s, 1, Len(s) - 1), c)
    ELSE s

\* sorted(S, key=len, reverse=True); the order among words of equal length
\* is the iteration order of the set and does not change what the
\* alternation matches, since no word is a proper prefix of a word of its
\* own length
RECURSIVE SortedByLenDesc(_)
SortedByLenDesc(S) ==
    IF S = {} THEN <<>>
    ELSE LET x == CHOOSE y \in S : \A z \in S : Len(z) <= Len(y)
         IN  <<x>> \o SortedByLenDesc(S \ {x})

-----------------------------------------------------------------------------
(* extract_stats_from_text *)

skill_names == SortedByLenDesc(SKILLS)

\* rf'\b(?:level\s+)?(\d+)\s+({skill_names})\b' with re.IGNORECASE
stat_pattern ==
    << Cat(<<WordBoundary,
             Opt(Cat(<<LitI(<<"l","e","v","e","l">>), Plus(Cls(Whitespace))>>))>>),
       Plus(Cls(Digits)),
       Plus(Cls(Whitespace)),
       Alt([i \in 1..Len(skill_names) |-> LitI(skill_names[i])]),
       WordBoundary >>

StatMatches(t) == FindIter(stat_pattern, t, 1)

\* int(match.group(1))
StatLevel(t, m) == ToInt(Group(t, m, 2))

\* StatSkill with the canonical table left out
StatSkillTitleOnly(t, m) == Title(Lower(Group(t, m, 4)))

\* SKILL_CANONICAL.get(skill_raw, skill_raw.title())
StatSkill(t, m) ==
    LET skill_raw == Lower(Group(t, m, 4))
    IN  DictGet(SKILL_CANONICAL, skill_raw, Title(skill_raw))

\* StatStep with the bounds on the level left unchecked
StatStepNoRange(t, m, acc) ==
    LET level == ToInt(Group(t, m, 2))
        skill_raw == Lower(Group(t, m, 4))
        skill == DictGet(SKILL_CANONICAL, skill_raw, Title(skill_raw))
    IN  IF skill \notin acc.seen
        THEN [seen |-> acc.seen \cup {skill},
              out |-> Append(acc.out, [skill |-> skill, level |-> level])]
        ELSE acc

\* the body of the for loop, for one match
StatStep(t, m, acc) ==
    LET level == StatLevel(t, m)
        skill == StatSkill(t, m)
    IN  IF skill \notin acc.seen /\ 1 <= level /\ level <= 99
        THEN [seen |-> acc.seen \cup {skill},
              out |-> Append(acc.out, [skill |-> skill, level |-> level])]
        ELSE acc

RECURSIVE StatLoop(_, _, _, _)
StatLoop(t, ms, j, acc) ==
    IF j > Len(ms) THEN acc
    ELSE StatLoop(t, ms, j + 1, StatStep(t, ms[j], acc))

extract_stats_from_text(t) ==
    StatLoop(t, StatMatches(t), 1, [seen |-> {}, out |-> <<>>]).out

-----------------------------------------------------------------------------
(* extract_items_from_text *)

\* [a-zA-Z\-\']
NameChars == Letters \cup {"-", "'"}

W(w) == LitI(w)

\* (?=\s*[,.\(\)]|\s+(?:and|then|to|from|for|in|on|at|with|if|or|but|you|the|your)|$)
numeric_lookahead ==
    Ahead(Alt(<<
        Cat(<<Star(Cls(Whitespace)), Cls({",", ".", "(", ")"})>>),
        Cat(<<Plus(Cls(Whitespace)),
              Alt(<< W(<<"a","n","d">>), W(<<"t","h","e","n">>), W(<<"t","o">>),
                     W(<<"f","r","o","m">>), W(<<"f","o","r">>), W(<<"i","n">>),
                     W(<<"o","n">>), W(<<"a","t">>), W(<<"w","i","t","h">>),
                     W(<<"i","f">>), W(<<"o","r">>), W(<<"b","u","t">>),
                     W(<<"y","o","u">>), W(<<"t","h","e">>),
                     W(<<"y","o","u","r">>) >>)>>),
        EndOfText >>))

\* r'\b(\d+)\s+([a-zA-Z][a-zA-Z\-\']{1,20}(?:\s+[a-zA-Z\-\']{1,15})?)(?=...)'
\* with re.IGNORECASE
numeric_pattern ==
    << WordBoundary,
       Plus(Cls(Digits)),
       Plus(Cls(Whitespace)),
       Cat(<<Cls(Letters), Rep(Cls(NameChars), 1, 20),
             Opt(Cat(<<Plus(Cls(Whitespace)), Rep(Cls(NameChars), 1, 15)>>))>>),
       numeric_lookahead >>

\* (?=\s*[,.\(\)]|\s+(?:and|then|to|from|for|in|on|at|with|if|or|but)|$)
word_lookahead ==
    Ahead(Alt(<<
        Cat(<<Star(Cls(Whitespace)), Cls({",", ".", "(", ")"})>>),
        Cat(<<Plus(Cls(Whitespace)),
              Alt(<< W(<<"a","n","d">>), W(<<"t","h","e","n">>), W(<<"t","o">>),
                     W(<<"f","r","o","m">>), W(<<"f","o","r">>), W(<<"i","n">>),
                     W(<<"o","n">>), W(<<"a","t">>), W(<<"w","i","t","h">>),
                     W(<<"i","f">>), W(<<"o","r">>), W(<<"b","u","t">>) >>)>>),
        EndOfText >>))

\* r'(?:grab|take|get|buy|bring|collect|gather|pick|steal|use|equip|wear)\s+'
action_context ==
    Cat(<<Alt(<< W(<<"g","r","a","b">>), W(<<"t","a","k","e">>),
                 W(<<"g","e","t">>), W(<<"b","u","y">>),
                 W(<<"b","r","i","n","g">>), W(<<"c","o","l","l","e","c","t">>),
                 W(<<"g","a","t","h","e","r">>), W(<<"p","i","c","k">>),
                 W(<<"s","t","e","a","l">>), W(<<"u","s","e">>),
                 W(<<"e","q","u","i","p">>), W(<<"w","e","a","r">>) >>),
          Plus(Cls(Whitespace))>>)

\* rf'{action_context}(a|an|one|two|three|four|five|six|seven|eight|nine|ten)
\*    \s+([a-zA-Z][a-zA-Z\-\']+?)(?=...)' with re.IGNORECASE
word_pattern ==
    << action_context,
       Alt(<< W(<<"a">>), W(<<"a","n">>), W(<<"o","n","e">>), W(<<"t","w","o">>),
              W(<<"t","h","r","e","e">>), W(<<"f","o","u","r">>),
              W(<<"f","i","v","e">>), W(<<"s","i","x">>),
              W(<<"s","e","v","e","n">>), W(<<"e","i","g","h","t">>),
              W(<<"n","i","n","e">>), W(<<"t","e","n">>) >>),
       Plus(Cls(Whitespace)),
       Cat(<<Cls(Letters), LazyPlus(Cls(NameChars))>>),
       word_lookahead >>

NumericMatches(t) == FindIter(numeric_pattern, t, 1)
WordMatches(t) == FindIter(word_pattern, t, 1)

\* the plural rule of the numeric pass
Singular(name) ==
    IF EndsWith(name, <<"s">>) /\ Len(name) > 3 /\ ~EndsWith(name, <<"s","s">>)
    THEN RStripChar(name, "s")
    ELSE name

\* AddItem with the seen-set left unchecked
AddItemNoSeen(acc, name, qty) ==
    LET name_key == Lower(name)
    IN  IF qty > 0 /\ Len(name) > 1
        THEN [seen |-> acc.seen \cup {name_key},
              out |-> Append(acc.out, [name |-> Title(name), qty |-> qty])]
        ELSE acc

\* seen_items.add(name_key); items.append({"name": name.title(), "qty": qty})
\* under the guard that closes both loops
AddItem(acc, name, qty) ==
    LET name_key == Lower(name)
    IN  IF name_key \notin acc.seen /\ qty > 0 /\ Len(name) > 1
        THEN [seen |-> acc.seen \cup {name_key},
              out |-> Append(acc.out, [name |-> Title(name), qty |-> qty])]
        ELSE acc

\* NumericStep with the cap on the quantity left out
NumericStepNoCap(t, m, acc) ==
    LET qty == ToInt(Group(t, m, 2))
        name == Lower(Strip(Group(t, m, 4)))
        name_words == SplitWs(name)
        first_word == name_words[1]
    IN  IF first_word \in SKILLS THEN acc
        ELSE IF first_word \in skip_words \/ name \in skip_words THEN acc
        ELSE IF \E i \in 1..Len(name_words) : name_words[i] \in skip_words
             THEN acc
        ELSE IF Len(name_words) > 3 THEN acc
        ELSE AddItem(acc, Singular(name), qty)

\* the body of the first for loop, for one match
NumericStep(t, m, acc) ==
    LET qty == ToInt(Group(t, m, 2))
        name == Lower(Strip(Group(t, m, 4)))
        name_words == SplitWs(name)
        first_word == name_words[1]
    IN  IF qty > 1000 THEN acc
        ELSE IF first_word \in SKILLS THEN acc
        ELSE IF first_word \in skip_words \/ name \in skip_words THEN acc
        ELSE IF \E i \in 1..Len(name_words) : name_words[i] \in skip_words
             THEN acc
        ELSE IF Len(name_words) > 3 THEN acc
        ELSE AddItem(acc, Singular(name), qty)

\* WordStep with the test on skill names left out
WordStepNoSkillCheck(t, m, acc) ==
    LET qty_word == Lower(Group(t, m, 2))
        qty == DictGet(number_words, qty_word, 1)
        name == Lower(Strip(Group(t, m, 4)))
    IN  IF name \in skip_words \/ \E sw \in skip_words : Contains(name, sw)
        THEN acc
        ELSE AddItem(acc, name, qty)

\* the body of the second for loop, for one match
WordStep(t, m, acc) ==
    LET qty_word == Lower(Group(t, m, 2))
        qty == DictGet(number_words, qty_word, 1)
        name == Lower(Strip(Group(t, m, 4)))
    IN  IF SplitWs(name)[1] \in SKILLS THEN acc
        ELSE IF name \in skip_words \/ \E sw \in skip_words : Contains(name, sw)
             THEN acc
        ELSE AddItem(acc, name, qty)

RECURSIVE NumericLoop(_, _, _, _)
NumericLoop(t, ms, j, acc) ==
    IF j > Len(ms) THEN acc
    ELSE NumericLoop(t, ms, j + 1, NumericStep(t, ms[j], acc))

RECURSIVE WordLoop(_, _, _, _)
WordLoop(t, ms, j, acc) ==
    IF j > Len(ms) THEN acc
    ELSE WordLoop(t, ms, j + 1, WordStep(t, ms[j], acc))

\* items and seen_items at the start of the function
NoItems == [seen |-> {}, out |-> <<>>]

\* items and seen_items after the numeric loop
NumericPass(t) == NumericLoop(t, NumericMatches(t), 1, NoItems)

\* extract_items_from_text with the word loop run before the numeric loop
extract_items_word_first(t) ==
    NumericLoop(t, NumericMatches(t), 1,
                WordLoop(t, WordMatches(t), 1, NoItems)).out

extract_items_from_text(t) ==
    WordLoop(t, WordMatches(t), 1, NumericPass(t)).out

-----------------------------------------------------------------------------
(* split_into_instructions *)

action_verbs ==
    { <<"g","r","a","b">>, <<"t","a","l","k">>, <<"r","u","n">>, <<"g","o">>,
      <<"h","e","a","d">>, <<"w","a","l","k">>,
      <<"t","e","l","e","p","o","r","t">>, <<"b","u","y">>, <<"s","e","l","l">>,
      <<"b","a","n","k">>, <<"d","e","p","o","s","i","t">>,
      <<"w","i","t","h","d","r","a","w">>, <<"u","s","e">>, <<"o","p","e","n">>,
      <<"c","l","o","s","e">>, <<"c","l","i","c","k">>, <<"e","n","t","e","r">>,
      <<"e","x","i","t">>, <<"r","e","t","u","r","n">>,
      <<"c","o","n","t","i","n","u","e">>, <<"c","o","m","p","l","e","t","e">>,
      <<"f","i","n","i","s","h">>, <<"s","t","a","r","t">>,
      <<"b","e","g","i","n">>, <<"p","i","c","k">>,
      <<"p","i","c","k","p","o","c","k","e","t">>, <<"s","t","e","a","l">>,
      <<"t","a","k","e">>, <<"b","r","i","n","g">>, <<"d","r","o","p">>,
      <<"d","e","s","t","r","o","y">>, <<"e","q","u","i","p">>,
      <<"w","e","a","r">>, <<"w","i","e","l","d">>, <<"r","e","m","o","v","e">>,
      <<"u","n","e","q","u","i","p">>, <<"e","a","t">>, <<"d","r","i","n","k">>,
      <<"c","o","o","k">>, <<"b","u","r","n">>, <<"c","u","t">>,
      <<"c","h","o","p">>, <<"m","i","n","e">>, <<"f","i","s","h">>,
      <<"f","l","e","t","c","h">>, <<"s","m","i","t","h">>,
      <<"c","r","a","f","t">>, <<"m","a","k","e">>, <<"c","r","e","a","t","e">>,
      <<"l","i","g","h","t">>, <<"r","e","a","d">>, <<"s","p","e","a","k">>,
      <<"a","s","k">>, <<"t","e","l","l">>, <<"g","i","v","e">>,
      <<"r","e","c","e","i","v","e">>, <<"g","e","t">>,
      <<"c","o","l","l","e","c","t">>, <<"g","a","t","h","e","r">>,
      <<"d","i","g">>, <<"s","e","a","r","c","h">>,
      <<"e","x","a","m","i","n","e">>, <<"c","h","e","c","k">>,
      <<"r","e","s","t","o","r","e">>, <<"r","e","c","h","a","r","g","e">>,
      <<"f","i","l","l">>, <<"e","m","p","t","y">> }

\* r'(?<=[.!?])\s+(?=[A-Z])'
sentence_boundary ==
    << Cat(<<Behind(Cls({".", "!", "?"})), Plus(Cls(Whitespace)),
             Ahead(Cls(UpperLetters))>>) >>

\* re.split(pattern, t) for a pattern without capture groups
RECURSIVE SplitAt(_, _, _, _)
SplitAt(t, ms, j, from) ==
    IF j > Len(ms) THEN <<Slice(t, from, Len(t) + 1)>>
    ELSE <<Slice(t, from, ms[j][1])>>
         \o SplitAt(t, ms, j + 1, ms[j][Len(ms[j])])

ReSplit(parts, t) == SplitAt(t, FindIter(parts, t, 1), 1, 1)

\* s.split(sep) for a non-empty separator
RECURSIVE StrSplit(_, _)
StrSplit(s, sep) ==
    IF Contains(s, sep)
    THEN LET i == CHOOSE k \in 1..(Len(s) - Len(sep) + 1) :
                     /\ SubSeq(s, k, k + Len(sep) - 1) = sep
                     /\ \A h \in 1..(k - 1) : SubSeq(s, h, h + Len(sep) - 1) # sep
         IN  <<SubSeq(s, 1, i - 1)>>
             \o StrSplit(SubSeq(s, i + Len(sep), Len(s)), sep)
    ELSE <<s>>

\* the body of the loop over the segments; i counts from 0 as enumerate does
SegmentStep(acc, i, raw_segment) ==
    LET segment == Strip(raw_segment)
        first_word == Lower(SplitWs(segment)[1])
    IN  IF segment = <<>> THEN acc
        ELSE IF i > 0 /\ first_word \in action_verbs
        THEN [parts |-> IF acc.current # <<>>
                        THEN Append(acc.parts, Strip(acc.current))
                        ELSE acc.parts,
              current |-> segment]
        ELSE [parts |-> acc.parts,
              current |-> IF acc.current # <<>>
                          THEN acc.current \o <<",", " ">> \o segment
                          ELSE segment]

RECURSIVE SegmentLoop(_, _, _)
SegmentLoop(segments, j, acc) ==
    IF j > Len(segments) THEN acc
    ELSE SegmentLoop(segments, j + 1, SegmentStep(acc, j - 1, segments[j]))

\* the parts of one sentence
SentenceParts(raw_sentence) ==
    LET sentence == Strip(raw_sentence)
        acc == SegmentLoop(StrSplit(sentence, <<",", " ">>), 1,
                           [parts |-> <<>>, current |-> <<>>])
    IN  IF sentence = <<>> THEN <<>>
        ELSE IF acc.current # <<>>
        THEN Append(acc.parts, Strip(acc.current))
        ELSE acc.parts

\* the loop that appends the parts of a sentence to the instructions
RECURSIVE EmitParts(_, _)
EmitParts(parts, j) ==
    IF j > Len(parts) THEN <<>>
    ELSE LET part == Strip(parts[j])
         IN  (IF part # <<>>
              THEN <<[text |-> Sub(whitespace_run, <<" ">>, part)]>>
              ELSE <<>>) \o EmitParts(parts, j + 1)

RECURSIVE SentenceLoop(_, _)
SentenceLoop(sentences, j) ==
    IF j > Len(sentences) THEN <<>>
    ELSE EmitParts(SentenceParts(sentences[j]), 1)
         \o SentenceLoop(sentences, j + 1)

split_into_instructions(plain_text) ==
    IF Strip(plain_text) = <<>> THEN <<>>
    ELSE SentenceLoop(ReSplit(sentence_boundary, plain_text), 1)

-----------------------------------------------------------------------------
(* parse_gp_stack *)

Dash == Cls({"-", "ENDASH"})

\* r'(\d+)\s*[-\u2013]\s*(\d+)'
range_pattern ==
    << Plus(Cls(Digits)),
       Cat(<<Star(Cls(Whitespace)), Dash, Star(Cls(Whitespace))>>),
       Plus(Cls(Digits)) >>

\* r'(\d+)\s*(?:gp|gold)?'
single_pattern ==
    << Plus(Cls(Digits)),
       Cat(<<Star(Cls(Whitespace)),
             Opt(Alt(<<Lit(<<"g","p">>), Lit(<<"g","o","l","d">>)>>))>>) >>

\* note_pattern with the leading number made optional (\d* for \d+)
note_pattern_optional_number ==
    << Cat(<<Star(Cls(Digits)), Star(Cls(Whitespace)),
             Opt(Alt(<<LitI(<<"g","p">>), LitI(<<"g","o","l","d">>)>>)),
             Star(Cls(Whitespace)), Opt(Dash), Star(Cls(Whitespace))>>),
       Plus(Dot) >>

\* r'\d+\s*(?:gp|gold)?\s*[-\u2013]?\s*(.+)' with re.IGNORECASE
note_pattern ==
    << Cat(<<Plus(Cls(Digits)), Star(Cls(Whitespace)),
             Opt(Alt(<<LitI(<<"g","p">>), LitI(<<"g","o","l","d">>)>>)),
             Star(Cls(Whitespace)), Opt(Dash), Star(Cls(Whitespace))>>),
       Plus(Dot) >>

\* str.isdigit()
IsDigitStr(s) == s # <<>> /\ \A i \in 1..Len(s) : s[i] \in Digits

\* GpRange with the single-integer case tried before the range case
GpRangeSingleFirst(gp_text) ==
    LET range_match == Search(range_pattern, gp_text, 1)
        single_match == Search(single_pattern, gp_text, 1)
    IN  IF single_match # <<>>
        THEN [min |-> ToInt(Group(gp_text, single_match, 1)),
              max |-> ToInt(Group(gp_text, single_match, 1))]
        ELSE IF range_match # <<>>
        THEN [min |-> ToInt(Group(gp_text, range_match, 1)),
              max |-> ToInt(Group(gp_text, range_match, 3))]
        ELSE [min |-> 0, max |-> 0]

\* the min and max keys of the result
GpRange(gp_text) ==
    LET range_match == Search(range_pattern, gp_text, 1)
        single_match == Search(single_pattern, gp_text, 1)
    IN  IF range_match # <<>>
        THEN [min |-> ToInt(Group(gp_text, range_match, 1)),
              max |-> ToInt(Group(gp_text, range_match, 3))]
        ELSE IF single_match # <<>>
        THEN [min |-> ToInt(Group(gp_text, single_match, 1)),
              max |-> ToInt(Group(gp_text, single_match, 1))]
        ELSE [min |-> 0, max |-> 0]

\* the note key of the result; <<>> when the key is not set
GpNote(gp_text) ==
    LET note_match == Search(note_pattern, gp_text, 1)
        note == Strip(Group(gp_text, note_match, 2))
    IN  IF note_match # <<>> /\ note # <<>> /\ ~IsDigitStr(note)
        THEN note ELSE <<>>

\* parse_gp_stack with the result replaced by the note when there is one
parse_gp_stack_note_only(gp_text) ==
    IF GpNote(gp_text) # <<>>
    THEN [note |-> GpNote(gp_text)]
    ELSE GpRange(gp_text)

\* the returned dict: the note key is present only when it was set
parse_gp_stack(gp_text) ==
    LET r == GpRange(gp_text)
        note == GpNote(gp_text)
    IN  IF note # <<>>
        THEN [min |-> r.min, max |-> r.max, note |-> note]
        ELSE r

-----------------------------------------------------------------------------
(* Inputs *)

\* all texts of at most n characters over the alphabet A
RECURSIVE TextsUpTo(_, _)
TextsUpTo(A, n) ==
    IF n = 0 THEN {<<>>}
    ELSE LET shorter == TextsUpTo(A, n - 1)
         IN  shorter \cup {Append(s, c) : s \in shorter, c \in A}

\* the concatenations of at most n of the pieces P
RECURSIVE Joined(_, _)
Joined(P, n) ==
    IF n = 0 THEN {<<>>}
    ELSE LET shorter == Joined(P, n - 1)
         IN  shorter \cup {s \o p : s \in shorter, p \in P}

MaxGpLen == 4

GpAlphabet == {"1", "5", " ", "-", "ENDASH", "g", "p", "x"}

\* the texts quoted by the comments of parse_gp_stack ("0 gp", "100-500 gp",
\* "100 - 500", "0") and further stack annotations
GpExamples ==
    { <<"0"," ","g","p">>,
      <<"1","0","0","-","5","0","0"," ","g","p">>,
      <<"1","0","0"," ","-"," ","5","0","0">>,
      <<"0">>,
      <<"5","0","0","-","1","0","0">>,
      <<"1","0"," ","G","o","l","d">>,
      <<"5"," ","g","p"," ","o","r"," ","1","0","0","-","5","0","0">>,
      <<"1","2"," ","3","ENDASH","4","5">>,
      <<"n","o"," ","s","t","a","c","k"," ","n","e","e","d","e","d">> }

GpTexts == TextsUpTo(GpAlphabet, MaxGpLen) \cup GpExamples

MaxRawLen == 4

RawAlphabet == {"a", " ", "TAB", "RSQUOTE", "ELLIPSIS", "EACUTE", "CJK",
                "NBSP"}

\* raw texts with the other characters of the substitution table
RawExamples ==
    { <<"LDQUOTE","a","RDQUOTE"," ","ENDASH"," ","LSQUOTE","a","RSQUOTE">>,
      <<"EMDASH","NEWLINE","FI","NEWLINE","TAB","a","ELLIPSIS">>,
      <<"CJK"," ","a"," ","COMBACUTE">> }

RawTexts == TextsUpTo(RawAlphabet, MaxRawLen) \cup RawExamples

MaxStatPieces == 3

StatPieces ==
    { <<"3","5"," ","w","c"," ">>,
      <<"5"," ","W","o","o","d","c","u","t","t","i","n","g"," ">>,
      <<"1","0","0"," ","w","c"," ">>,
      <<"0"," ","w","c",","," ">>,
      <<"7"," ","d","e","f","e","n","s","e"," ">>,
      <<"l","e","v","e","l"," ","9","9"," ","D","e","f","e","n","c","e",".">>,
      <<"l","e","v","e","l"," ">>,
      <<"1","5"," ">> }

\* the texts quoted by the documentation of extract_stats_from_text
StatExamples ==
    { <<"1","5"," ","f","i","r","e","m","a","k","i","n","g">>,
      <<"l","e","v","e","l"," ","3","5"," ","w","o","o","d","c","u","t","t",
        "i","n","g">>,
      <<"3","5"," ","w","o","o","d","c","u","t","t","i","n","g">>,
      <<"l","e","v","e","l"," ","3","5"," ","w","o","o","d","c","u","t","t",
        "i","n","g"," ","a","n","d"," ","1","5"," ","f","i","r","e","m","a",
        "k","i","n","g">> }

\* the extractors receive the output of to_ascii (strip_html_tags)
StatTexts == {to_ascii(s) : s \in Joined(StatPieces, MaxStatPieces)}
                 \cup StatExamples

MaxStepPieces == 3

StepPieces ==
    { <<"5"," ","k","n","i","f","e","s">>,
      <<"g","r","a","b"," ","a"," ","k","n","i","f","e">>,
      <<"T","a","k","e"," ","t","w","o"," ","a","s","h","e","s">>,
      <<"3"," ","a","s","h","e","s">>,
      <<"1","0","0","0"," ","b","o","n","e","s",".">>,
      <<"9"," ","w","c">>,
      <<","," ">>, <<" ">> }

\* the texts quoted by the documentation of the extractors, and further
\* step descriptions
StepExamples ==
    { <<"G","r","a","b"," ","5"," ","a","s","h","e","s"," ","a","n","d"," ",
        "a"," ","k","n","i","f","e",".">>,
      <<"1","1","0"," ","l","o","g","s">>,
      <<"a"," ","k","n","i","f","e">>,
      <<"t","w","o"," ","b","u","c","k","e","t","s">>,
      <<"g","r","a","b"," ","5"," ","a","s","h","e","s">>,
      <<"l","e","v","e","l"," ","3","5"," ","w","o","o","d","c","u","t","t",
        "i","n","g"," ","a","n","d"," ","1","5"," ","f","i","r","e","m","a",
        "k","i","n","g">>,
      <<"1","5","0","0"," ","g","l","a","s","s",","," ","0"," ","l","o","g",
        "s"," ","a","n","d"," ","4"," ","s","t","e","p","s">>,
      <<"5"," ","k","n","i","f","e","s",","," ",","," ","3"," ","a","s","h",
        "e","s">>,
      <<"1","5","0","0"," ","x","p",","," ","1","5","0","0"," ","g","l",
        "a","s","s",","," ","0"," ","l","o","g","s"," ","a","n","d"," ",
        "1","0","0","0"," ","b","o","n","e","s",".">>,
      <<"Y","o","u"," ","n","e","e","d"," ","3","5"," ","w","o","o","d",
        "c","u","t","t","i","n","g"," ","t","o"," ","c","o","n","t","i",
        "n","u","e",".">>,
      <<"Y","o","u"," ","n","e","e","d"," ","3","5"," ","w","o","o","d",
        "c","u","t","t","i","n","g"," ","t","o"," ","c","o","n","t","i",
        "n","u","e",","," ","u","s","e"," ","t","w","o"," ","R","C"," ",
        "a","n","d"," ","5"," ","k","n","i","f","e","s",".">> }

StepTexts == {to_ascii(s) : s \in Joined(StepPieces, MaxStepPieces)}
                 \cup StepExamples

-----------------------------------------------------------------------------
(* The calls *)

NoResult == <<>>

\* the calls an orchestrator may have in progress at the same time
MaxCalls == 2

CallIds == 1..MaxCalls

\* a call that has not been made: no argument, no local collections yet
IdleCall ==
    [fn |-> "", text |-> <<>>, at |-> "idle", j |-> 0, acc |-> NoItems,
     result |-> NoResult]

\* the module-level tables
ModuleTables == [SKILLS |-> SKILLS, SKILL_CANONICAL |-> SKILL_CANONICAL]

InitResults ==
    /\ calls = [c \in CallIds |-> IdleCall]
    /\ tables = ModuleTables
    /\ pc = "idle"
    /\ instructions = NoResult
    /\ items = NoResult
    /\ stats = NoResult
    /\ gp = NoResult
    /\ ascii = NoResult

CallParseGpStack ==
    /\ pc = "idle"
    /\ gp' = parse_gp_stack(text)
    /\ pc' = "parse_gp_stack"
    /\ UNCHANGED <<text, instructions, items, stats, ascii, calls, tables>>

InitGp == text \in GpTexts /\ InitResults
NextGp == CallParseGpStack
SpecGp == InitGp /\ [][NextGp]_vars

CallToAscii ==
    /\ pc = "idle"
    /\ ascii' = to_ascii(text)
    /\ pc' = "to_ascii"
    /\ UNCHANGED <<text, instructions, items, stats, gp, calls, tables>>

CallExtractStats ==
    /\ pc = "idle"
    /\ stats' = extract_stats_from_text(text)
    /\ pc' = "extract_stats_from_text"
    /\ UNCHANGED <<text, instructions, items, gp, ascii, calls, tables>>

CallExtractItems ==
    /\ pc = "idle"
    /\ items' = extract_items_from_text(text)
    /\ pc' = "extract_items_from_text"
    /\ UNCHANGED <<text, instructions, stats, gp, ascii, calls, tables>>

InitAscii == text \in RawTexts /\ InitResults
NextAscii == CallToAscii
SpecAscii == InitAscii /\ [][NextAscii]_vars

InitStats == text \in StatTexts /\ InitResults
NextStats == CallExtractStats
SpecStats == InitStats /\ [][NextStats]_vars

CallSplitIntoInstructions ==
    /\ pc = "idle"
    /\ instructions' = split_into_instructions(text)
    /\ pc' = "split_into_instructions"
    /\ UNCHANGED <<text, items, stats, gp, ascii, calls, tables>>

\* one step description handed to the segmenter and to both extractors
InitStep == text \in StepTexts /\ InitResults
NextStep == CallSplitIntoInstructions \/ CallExtractItems \/ CallExtractStats
SpecStep == InitStep /\ [][NextStep]_vars

-----------------------------------------------------------------------------
(* Interleaved calls *)

\* the calls an orchestrator makes: a routine and its argument
Jobs ==
    { <<"extract_items_from_text",
        <<"5"," ","k","n","i","f","e","s",","," ","3"," ","a","s","h","e",
          "s">> >>,
      <<"extract_items_from_text",
        <<"g","r","a","b"," ","a"," ","k","n","i","f","e",","," ","5"," ",
          "k","n","i","f","e","s">> >>,
      <<"extract_stats_from_text",
        <<"3","5"," ","w","c",","," ","5"," ","W","o","o","d","c","u","t",
          "t","i","n","g">> >>,
      <<"extract_stats_from_text",
        <<"0"," ","w","c"," ","a","n","d"," ","9"," ","w","c">> >>,
      <<"to_ascii", <<"G","o"," ","ENDASH"," ","n","o","r","t","h">> >>,
      <<"split_into_instructions",
        <<"G","o"," ","n","o","r","t","h",","," ","g","r","a","b"," ","a",
          " ","k","n","i","f","e">> >>,
      <<"parse_gp_stack", <<"1","0","0","-","5","0","0"," ","g","p">> >> }

\* NewCollections with one list and one seen-set per routine, kept at module
\* level and handed to every call of the routine
NewCollectionsShared(cs, fn) ==
    IF \E d \in CallIds : cs[d].fn = fn
    THEN cs[CHOOSE d \in CallIds : cs[d].fn = fn].acc
    ELSE [seen |-> {}, out |-> <<>>]

\* items = []; seen_items = set()  (stats = []; seen_skills = set()): the
\* collections of a call are allocated by the call
NewCollections(cs, fn) == [seen |-> {}, out |-> <<>>]

\* where the body of a routine starts
Entry(fn) ==
    CASE fn = "extract_items_from_text" -> "numeric_loop"
      [] fn = "extract_stats_from_text" -> "stat_loop"
      [] OTHER -> "body"

\* a call is made: the argument is bound and the locals are allocated
Invoke(c) ==
    /\ calls[c].at = "idle"
    /\ \E job \in Jobs :
          calls' = [calls EXCEPT ![c] =
                       [fn |-> job[1], text |-> job[2], at |-> Entry(job[1]),
                        j |-> 1, acc |-> NewCollections(calls, job[1]),
                        result |-> NoResult]]
    /\ UNCHANGED <<text, pc, instructions, items, stats, gp, ascii, tables>>

\* one turn of the first for loop of extract_items_from_text, or its end
ItemsNumericIter(c) ==
    /\ calls[c].at = "numeric_loop"
    /\ LET f == calls[c]
           ms == NumericMatches(f.text)
       IN  calls' = [calls EXCEPT ![c] =
                        IF f.j <= Len(ms)
                        THEN [f EXCEPT !.acc = NumericStep(f.text, ms[f.j], f.acc),
                                       !.j = f.j + 1]
                        ELSE [f EXCEPT !.at = "word_loop", !.j = 1]]
    /\ UNCHANGED <<text, pc, instructions, items, stats, gp, ascii, tables>>

\* one turn of the second for loop of extract_items_from_text, or the return
ItemsWordIter(c) ==
    /\ calls[c].at = "word_loop"
    /\ LET f == calls[c]
           ms == WordMatches(f.text)
       IN  calls' = [calls EXCEPT ![c] =
                        IF f.j <= Len(ms)
                        THEN [f EXCEPT !.acc = WordStep(f.text, ms[f.j], f.acc),
                                       !.j = f.j + 1]
                        ELSE [f EXCEPT !.at = "done", !.result = f.acc.out]]
    /\ UNCHANGED <<text, pc, instructions, items, stats, gp, ascii, tables>>

\* one turn of the for loop of extract_stats_from_text, or the return
StatsIter(c) ==
    /\ calls[c].at = "stat_loop"
    /\ LET f == calls[c]
           ms == StatMatches(f.text)
       IN  calls' = [calls EXCEPT ![c] =
                        IF f.j <= Len(ms)
                        THEN [f EXCEPT !.acc = StatStep(f.text, ms[f.j], f.acc),
                                       !.j = f.j + 1]
                        ELSE [f EXCEPT !.at = "done", !.result = f.acc.out]]
    /\ UNCHANGED <<text, pc, instructions, items, stats, gp, ascii, tables>>

\* the bodies that keep no seen-set work on locals only
RunToAscii(c) ==
    /\ calls[c].at = "body" /\ calls[c].fn = "to_ascii"
    /\ calls' = [calls EXCEPT ![c].at = "done",
                              ![c].result = to_ascii(calls[c].text)]
    /\ UNCHANGED <<text, pc, instructions, items, stats, gp, ascii, tables>>

RunSplitIntoInstructions(c) ==
    /\ calls[c].at = "body" /\ calls[c].fn = "split_into_instructions"
    /\ calls' = [calls EXCEPT ![c].at = "done",
                              ![c].result = split_into_instructions(calls[c].text)]
    /\ UNCHANGED <<text, pc, instructions, items, stats, gp, ascii, tables>>

RunParseGpStack(c) ==
    /\ calls[c].at = "body" /\ calls[c].fn = "parse_gp_stack"
    /\ calls' = [calls EXCEPT ![c].at = "done",
                              ![c].result = parse_gp_stack(calls[c].text)]
    /\ UNCHANGED <<text, pc, instructions, items, stats, gp, ascii, tables>>

\* the caller takes the returned value; the locals of the call are gone
TakeResult(c) ==
    /\ calls[c].at = "done"
    /\ calls' = [calls EXCEPT ![c] = IdleCall]
    /\ UNCHANGED <<text, pc, instructions, items, stats, gp, ascii, tables>>

InitPar == text = <<>> /\ InitResults

NextPar ==
    \E c \in CallIds :
        \/ Invoke(c)
        \/ ItemsNumericIter(c)
        \/ ItemsWordIter(c)
        \/ StatsIter(c)
        \/ RunToAscii(c)
        \/ RunSplitIntoInstructions(c)
        \/ RunParseGpStack(c)
        \/ TakeResult(c)

SpecPar == InitPar /\ [][NextPar]_vars

-----------------------------------------------------------------------------
(* Mentions: what each match of a pattern yields when taken on its own *)

\* the elements of s whose key does not occur earlier, in order; keys[j] is
\* the key of s[j]
RECURSIVE KeepFirst(_, _, _)
KeepFirst(s, keys, j) ==
    IF j > Len(s) THEN <<>>
    ELSE (IF \E h \in 1..(j - 1) : keys[h] = keys[j]
          THEN <<>> ELSE <<s[j]>>) \o KeepFirst(s, keys, j + 1)

\* the accepted mentions of a pass: the record each match yields from an
\* empty seen-set, with the position at which the match starts
Mention(out, m, pass) ==
    IF out = <<>> THEN <<>>
    ELSE <<[item |-> out[1], start |-> m[1], pass |-> pass]>>

RECURSIVE NumericMentions(_, _, _)
NumericMentions(t, ms, j) ==
    IF j > Len(ms) THEN <<>>
    ELSE Mention(NumericStep(t, ms[j], NoItems).out, ms[j], "numeric")
         \o NumericMentions(t, ms, j + 1)

RECURSIVE WordMentions(_, _, _)
WordMentions(t, ms, j) ==
    IF j > Len(ms) THEN <<>>
    ELSE Mention(WordStep(t, ms[j], NoItems).out, ms[j], "word")
         \o WordMentions(t, ms, j + 1)

\* the accepted item mentions in processing order
ItemMentions(t) ==
    NumericMentions(t, NumericMatches(t), 1)
    \o WordMentions(t, WordMatches(t), 1)

ItemKey(mention) == Lower(mention.item.name)

KeysOf(ms) == [j \in 1..Len(ms) |-> ItemKey(ms[j])]

KeptItemMentions(t) == KeepFirst(ItemMentions(t), KeysOf(ItemMentions(t)), 1)

\* the skill mentions in text order, with canonical skill, level and start
StatMentions(t) ==
    LET ms == StatMatches(t)
    IN  [j \in 1..Len(ms) |->
            [skill |-> StatSkill(t, ms[j]), level |-> StatLevel(t, ms[j]),
             raw |-> Lower(Group(t, ms[j], 4)), start |-> ms[j][1]]]

ValidLevel(mention) == 1 <= mention.level /\ mention.level <= 99

SkillsOf(ms) == [j \in 1..Len(ms) |-> ms[j].skill]

\* the first mention of each skill among those with a level in 1..99
KeptStatMentions(t) ==
    LET valid == SelectSeq(StatMentions(t), ValidLevel)
    IN  KeepFirst(valid, SkillsOf(valid), 1)

\* the texts of the instructions, joined
RECURSIVE JoinTexts(_)
JoinTexts(ins) ==
    IF ins = <<>> THEN <<>> ELSE ins[1].text \o JoinTexts(Tail(ins))

\* a text without its whitespace and commas
Squeeze(s) == SelectSeq(s, LAMBDA c : c \notin Whitespace \cup {","})

HasDigit(t) == \E i \in 1..Len(t) : t[i] \in Digits

-----------------------------------------------------------------------------
(* Claims *)

\* C1: the items returned by one call hold at most one record per
\* lower-cased name, and the record kept for a name is the first accepted
\* mention in processing order: numeric-pass matches left to right, then
\* word-pass matches left to right.
C1_FirstAcceptedPerName ==
    pc = "extract_items_from_text" =>
        /\ \A i, j \in 1..Len(items) :
              Lower(items[i].name) = Lower(items[j].name) => i = j
        /\ LET kept == KeptItemMentions(text)
           IN  items = [i \in 1..Len(kept) |-> kept[i].item]

\* C1 witness: both passes accept the same lower-cased name with different
\* quantities and the record returned is the one of the numeric pass.
C1_Witness ==
    /\ pc = "extract_items_from_text"
    /\ \E i \in 1..Len(items) :
          LET ms == ItemMentions(text)
          IN  \E a, b \in 1..Len(ms) :
                 /\ ms[a].pass = "numeric" /\ ms[b].pass = "word"
                 /\ ItemKey(ms[a]) = ItemKey(ms[b])
                 /\ ms[a].item.qty # ms[b].item.qty
                 /\ items[i] = ms[a].item

\* C2 as stated: the records of each routine are in the left-to-right order
\* of the mentions that produced them, also across the two item passes.
C2_TextOrder ==
    /\ pc = "extract_items_from_text" =>
          LET kept == KeptItemMentions(text)
          IN  \A i, j \in 1..Len(kept) : i < j => kept[i].start < kept[j].start
    /\ pc = "extract_stats_from_text" =>
          LET kept == KeptStatMentions(text)
          IN  /\ stats = [i \in 1..Len(kept) |->
                            [skill |-> kept[i].skill, level |-> kept[i].level]]
              /\ \A i, j \in 1..Len(kept) : i < j => kept[i].start < kept[j].start
    /\ pc = "split_into_instructions" =>
          Squeeze(JoinTexts(instructions)) = Squeeze(text)

\* C2 amended: instructions and stats follow the left-to-right order of the
\* text; items are the numeric-pass records in left-to-right order followed
\* by the word-pass records in left-to-right order, so a word-pass item is
\* listed after every numeric-pass item wherever it stands in the text.
C2_PassThenTextOrder ==
    /\ pc = "extract_items_from_text" =>
          LET kept == KeptItemMentions(text)
          IN  /\ items = [i \in 1..Len(kept) |-> kept[i].item]
              /\ \A i, j \in 1..Len(kept) : i < j =>
                    /\ ~(kept[i].pass = "word" /\ kept[j].pass = "numeric")
                    /\ kept[i].pass = kept[j].pass => kept[i].start < kept[j].start
    /\ pc = "extract_stats_from_text" =>
          LET kept == KeptStatMentions(text)
          IN  /\ stats = [i \in 1..Len(kept) |->
                            [skill |-> kept[i].skill, level |-> kept[i].level]]
              /\ \A i, j \in 1..Len(kept) : i < j => kept[i].start < kept[j].start
    /\ pc = "split_into_instructions" =>
          Squeeze(JoinTexts(instructions)) = Squeeze(text)

\* C2 witness: a word-pass item stands in the text before a numeric-pass
\* item and is returned after it.
C2_Witness ==
    /\ pc = "extract_items_from_text"
    /\ LET kept == KeptItemMentions(text)
       IN  \E i, j \in 1..Len(kept) :
              /\ i < j
              /\ kept[i].pass = "numeric" /\ kept[j].pass = "word"
              /\ kept[j].start < kept[i].start
              /\ items[i] = kept[i].item /\ items[j] = kept[j].item

GrabAshesAndKnife ==
    <<"G","r","a","b"," ","5"," ","a","s","h","e","s"," ","a","n","d"," ",
      "a"," ","k","n","i","f","e",".">>

\* C3: "Grab 5 ashes and a knife." yields Ash with quantity 5, then Knife
\* with quantity 1.
C3_GrabAshesAndKnife ==
    (pc = "extract_items_from_text" /\ text = GrabAshesAndKnife) =>
        items = << [name |-> <<"A","s","h">>, qty |-> 5],
                   [name |-> <<"K","n","i","f","e">>, qty |-> 1] >>

\* C4: every stat returned has an integer level between 1 and 99; a mention
\* with level 0 or 100 and more yields no record.
C4_LevelInRange ==
    pc = "extract_stats_from_text" =>
        /\ \A i \in 1..Len(stats) :
              stats[i].level \in Int /\ 1 <= stats[i].level /\ stats[i].level <= 99
        /\ LET ms == StatMentions(text)
           IN  \A j \in 1..Len(ms) :
                  ~ValidLevel(ms[j]) =>
                     \A i \in 1..Len(stats) :
                        ~(stats[i].skill = ms[j].skill /\ stats[i].level = ms[j].level)

\* C4 witness: the text mentions a skill with level 0 or with a level of 100
\* or more, which yields no record, next to a mention that is kept.
C4_Witness ==
    /\ pc = "extract_stats_from_text"
    /\ stats # <<>>
    /\ LET ms == StatMentions(text)
       IN  \E j \in 1..Len(ms) :
              /\ ms[j].level = 0 \/ ms[j].level >= 100
              /\ \A i \in 1..Len(stats) : stats[i].skill # ms[j].skill

\* C5 as stated: at most one record per canonical skill, and the record of a
\* skill carries the level of the first mention of that skill in the text.
C5_FirstMentionWins ==
    pc = "extract_stats_from_text" =>
        /\ \A i, j \in 1..Len(stats) : stats[i].skill = stats[j].skill => i = j
        /\ LET first == KeepFirst(StatMentions(text), SkillsOf(StatMentions(text)), 1)
           IN  \A i \in 1..Len(stats) : \E j \in 1..Len(first) :
                  /\ first[j].skill = stats[i].skill
                  /\ first[j].level = stats[i].level

\* C5 amended: at most one record per canonical skill; spellings of one skill
\* share one record; the record carries the level of the first mention of
\* the skill whose level lies in 1..99, and every later mention is dropped.
C5_FirstValidMentionWins ==
    pc = "extract_stats_from_text" =>
        /\ \A i, j \in 1..Len(stats) : stats[i].skill = stats[j].skill => i = j
        /\ LET kept == KeptStatMentions(text)
           IN  stats = [i \in 1..Len(kept) |->
                          [skill |-> kept[i].skill, level |-> kept[i].level]]
        /\ LET ms == StatMentions(text)
           IN  \A a, b \in 1..Len(ms) :
                  ({ms[a].raw, ms[b].raw} \in
                       { {<<"w","c">>, <<"w","o","o","d","c","u","t","t","i","n","g">>},
                         {<<"d","e","f","e","n","s","e">>, <<"d","e","f","e","n","c","e">>} })
                  => Cardinality({i \in 1..Len(stats) :
                                    stats[i].skill \in {ms[a].skill, ms[b].skill}}) <= 1

\* C5 witness: two spellings of one skill are mentioned with different
\* levels in 1..99 and the record carries the level of the first.
C5_Witness ==
    /\ pc = "extract_stats_from_text"
    /\ LET ms == StatMentions(text)
       IN  \E a, b \in 1..Len(ms) :
              /\ a < b
              /\ ms[a].raw # ms[b].raw /\ ms[a].skill = ms[b].skill
              /\ ValidLevel(ms[a]) /\ ValidLevel(ms[b])
              /\ ms[a].level # ms[b].level
              /\ \A h \in 1..(a - 1) : ms[h].skill # ms[a].skill
              /\ \E i \in 1..Len(stats) :
                    stats[i] = [skill |-> ms[a].skill, level |-> ms[a].level]

\* C6: every range returned has min >= 0, max >= 0 and min <= max.
C6_MinAtMostMax ==
    pc = "parse_gp_stack" => gp.min >= 0 /\ gp.max >= 0 /\ gp.min <= gp.max

RECURSIVE RunEnd(_, _, _)
RunEnd(t, S, i) ==
    IF i <= Len(t) /\ t[i] \in S THEN RunEnd(t, S, i + 1) ELSE i

\* an integer of the text starts at i
IntegerAt(t, i) ==
    /\ i <= Len(t) /\ t[i] \in Digits
    /\ i = 1 \/ t[i - 1] \notin Digits

\* the position of the dash joining the integer at i to a second one
DashAfter(t, i) == RunEnd(t, Whitespace, RunEnd(t, Digits, i))

\* the position of the second integer of the pair that starts at i
SecondOfPair(t, i) == RunEnd(t, Whitespace, DashAfter(t, i) + 1)

\* two integers joined by a hyphen or an en-dash start at i
PairAt(t, i) ==
    /\ IntegerAt(t, i)
    /\ DashAfter(t, i) <= Len(t) /\ t[DashAfter(t, i)] \in {"-", "ENDASH"}
    /\ SecondOfPair(t, i) <= Len(t) /\ t[SecondOfPair(t, i)] \in Digits

IntegerFrom(t, i) == ToInt(Slice(t, i, RunEnd(t, Digits, i)))

\* C8: with a pair of integers joined by a hyphen or en-dash in the text,
\* min and max are the first and second integer of the leftmost pair, even
\* when a lone integer stands before it; otherwise both are the first
\* integer of the text; otherwise both are 0.
C8_RangeThenSingle ==
    pc = "parse_gp_stack" =>
        IF \E i \in 1..Len(text) : PairAt(text, i)
        THEN LET i == CHOOSE k \in 1..Len(text) :
                         /\ PairAt(text, k)
                         /\ \A h \in 1..(k - 1) : ~PairAt(text, h)
             IN  /\ gp.min = IntegerFrom(text, i)
                 /\ gp.max = IntegerFrom(text, SecondOfPair(text, i))
        ELSE IF HasDigit(text)
        THEN LET i == CHOOSE k \in 1..Len(text) :
                         /\ IntegerAt(text, k)
                         /\ \A h \in 1..(k - 1) : ~IntegerAt(text, h)
             IN  gp.min = IntegerFrom(text, i) /\ gp.max = IntegerFrom(text, i)
        ELSE gp.min = 0 /\ gp.max = 0

\* C8 witness: a lone integer stands before the pair and differs from its
\* first integer, and min and max are those of the pair.
C8_Witness ==
    /\ pc = "parse_gp_stack"
    /\ \E i, k \in 1..Len(text) :
          /\ i < k
          /\ IntegerAt(text, i) /\ ~PairAt(text, i)
          /\ PairAt(text, k)
          /\ IntegerFrom(text, i) # gp.min
          /\ gp.min = IntegerFrom(text, k)
          /\ gp.max = IntegerFrom(text, SecondOfPair(text, k))
          /\ gp.min # gp.max

\* C9 as stated: a non-empty text without a number comes back as the note,
\* with min 0 and max 0.
C9_NoteWithoutNumber ==
    (pc = "parse_gp_stack" /\ ~HasDigit(text) /\ Strip(text) # <<>>) =>
        /\ gp.min = 0 /\ gp.max = 0
        /\ "note" \in DOMAIN gp
        /\ gp.note = Strip(text)

\* C9 amended: a text without a number returns min 0 and max 0 and no note;
\* a note is only ever taken from what follows a number.
C9_NoNoteWithoutNumber ==
    (pc = "parse_gp_stack" /\ ~HasDigit(text)) => gp = [min |-> 0, max |-> 0]

NoStackNeeded ==
    <<"n","o"," ","s","t","a","c","k"," ","n","e","e","d","e","d">>

\* C9 witness: "no stack needed" was parsed.
C9_Witness ==
    /\ pc = "parse_gp_stack"
    /\ text = NoStackNeeded
    /\ gp = [min |-> 0, max |-> 0]

\* C10: the output of to_ascii is a fixed point of to_ascii: it is ASCII
\* only, has no leading or trailing whitespace and no two adjacent
\* whitespace characters, and the empty input gives the empty output.
C10_Idempotent ==
    pc = "to_ascii" =>
        /\ to_ascii(ascii) = ascii
        /\ \A i \in 1..Len(ascii) : ascii[i] \notin NonAscii
        /\ ascii = <<>> \/ (ascii[1] \notin Whitespace
                             /\ ascii[Len(ascii)] \notin Whitespace)
        /\ \A i \in 1..(Len(ascii) - 1) :
              ~(ascii[i] \in Whitespace /\ ascii[i + 1] \in Whitespace)
        /\ text = <<>> => ascii = <<>>

\* C10 witness: the input starts with a character that is dropped, followed
\* by whitespace, and ends with whitespace left by a dropped character.
C10_Witness ==
    /\ pc = "to_ascii"
    /\ Len(text) >= 3
    /\ text[1] = "CJK" /\ text[2] \in Whitespace
    /\ ascii # <<>> /\ ascii # text

\* a text without its whitespace
NonWhitespace(s) == SelectSeq(s, LAMBDA c : c \notin Whitespace)

\* rest is the instruction texts in order, whitespace apart, with nothing or
\* one comma (the ", " of a split) between two consecutive instructions
RECURSIVE Rejoins(_, _)
Rejoins(ins, rest) ==
    IF ins = <<>> THEN rest = <<>>
    ELSE LET body == NonWhitespace(ins[1].text)
             after == SubSeq(rest, Len(body) + 1, Len(rest))
         IN  /\ Len(body) <= Len(rest)
             /\ SubSeq(rest, 1, Len(body)) = body
             /\ \/ Rejoins(Tail(ins), after)
                \/ /\ Len(ins) > 1
                   /\ after # <<>> /\ after[1] = ","
                   /\ Rejoins(Tail(ins), Tail(after))

\* C11: split_into_instructions drops no non-whitespace character: the
\* instruction texts in order, with only whitespace or the ", " of a split
\* comma put back between consecutive instructions, hold every
\* non-whitespace character of the text in the original order, commas next
\* to an empty clause included.
C11_NoContentDropped ==
    pc = "split_into_instructions" =>
        Rejoins(instructions, NonWhitespace(text))

\* what a call returns when it is the only call made
Alone(fn, t) ==
    CASE fn = "to_ascii" -> to_ascii(t)
      [] fn = "split_into_instructions" -> split_into_instructions(t)
      [] fn = "extract_items_from_text" -> extract_items_from_text(t)
      [] fn = "extract_stats_from_text" -> extract_stats_from_text(t)
      [] fn = "parse_gp_stack" -> parse_gp_stack(t)

\* the collections of a call that runs alone, after n turns of its loop
AloneAfter(f) ==
    CASE f.at = "numeric_loop" ->
             NumericLoop(f.text, SubSeq(NumericMatches(f.text), 1, f.j - 1),
                         1, NoItems)
      [] f.at = "word_loop" ->
             WordLoop(f.text, SubSeq(WordMatches(f.text), 1, f.j - 1),
                      1, NumericPass(f.text))
      [] f.at = "stat_loop" ->
             StatLoop(f.text, SubSeq(StatMatches(f.text), 1, f.j - 1),
                      1, [seen |-> {}, out |-> <<>>])

InLoop(f) == f.at \in {"numeric_loop", "word_loop", "stat_loop"}

\* C12: the routines are pure functions of their argument: however calls on
\* the same or on different texts are interleaved, the list and the seen-set
\* of a call in progress are what that call would hold when run alone, a
\* finished call holds the result it would return alone, and the tables
\* SKILLS and SKILL_CANONICAL keep their value.
C12_CallsIndependent ==
    /\ tables = [SKILLS |-> SKILLS, SKILL_CANONICAL |-> SKILL_CANONICAL]
    /\ \A c \in CallIds :
          /\ InLoop(calls[c]) => calls[c].acc = AloneAfter(calls[c])
          /\ calls[c].at = "done" =>
                calls[c].result = Alone(calls[c].fn, calls[c].text)

\* C12 witness: two calls of extract_items_from_text on different texts are
\* in progress at the same time, each has run a turn of its loop and both
\* hold the same name in their own seen-set, with different lists.
C12_Witness ==
    \E c, d \in CallIds :
        /\ c # d
        /\ calls[c].fn = "extract_items_from_text"
        /\ calls[d].fn = "extract_items_from_text"
        /\ calls[c].text # calls[d].text
        /\ calls[c].at = "word_loop" /\ calls[c].j > 1
        /\ calls[d].at = "numeric_loop" /\ calls[d].j > 1
        /\ calls[c].acc.seen \cap calls[d].acc.seen # {}
        /\ calls[c].acc.out # calls[d].acc.out

\* the quantity and the lower-cased phrase of a match of numeric_pattern
NumericQty(t, m) == ToInt(Group(t, m, 2))
NumericName(t, m) == Lower(Strip(Group(t, m, 4)))

\* the filters of the numeric pass other than those on the quantity
PassesNameFilters(name) ==
    LET name_words == SplitWs(name)
    IN  /\ name_words[1] \notin SKILLS
        /\ name \notin skip_words
        /\ \A i \in 1..Len(name_words) : name_words[i] \notin skip_words
        /\ Len(name_words) <= 3
        /\ Len(Singular(name)) > 1

\* C13: every item returned has an integer quantity in 1..1000; a numeric
\* mention with a quantity above 1000 yields no item whatever its phrase is
\* (skip word or not), a mention with quantity 0 yields no item, and a
\* mention with quantity exactly 1000 whose phrase passes the other filters
\* is accepted.
C13_QtyInRange ==
    pc = "extract_items_from_text" =>
        /\ \A i \in 1..Len(items) :
              items[i].qty \in Int /\ 1 <= items[i].qty /\ items[i].qty <= 1000
        /\ LET ms == NumericMatches(text)
           IN  \A j \in 1..Len(ms) :
                  LET qty == NumericQty(text, ms[j])
                      name == NumericName(text, ms[j])
                      out == NumericStep(text, ms[j], NoItems).out
                  IN  /\ (qty > 1000 \/ qty = 0) =>
                            /\ out = <<>>
                            /\ \A i \in 1..Len(items) : items[i].qty # qty
                      /\ (qty = 1000 /\ PassesNameFilters(name)) =>
                            /\ out = <<[name |-> Title(Singular(name)),
                                        qty |-> 1000]>>
                            /\ \E i \in 1..Len(items) :
                                  Lower(items[i].name) = Singular(name)

\* C13 witness: one text holds a quantity above 1000 before a skip word, a
\* quantity above 1000 and a quantity 0 before phrases that pass every other
\* filter, and a quantity 1000 that is returned.
C13_Witness ==
    /\ pc = "extract_items_from_text"
    /\ \E i \in 1..Len(items) : items[i].qty = 1000
    /\ LET ms == NumericMatches(text)
       IN  /\ \E j \in 1..Len(ms) :
                 /\ NumericQty(text, ms[j]) > 1000
                 /\ NumericName(text, ms[j]) \in skip_words
           /\ \E j \in 1..Len(ms) :
                 /\ NumericQty(text, ms[j]) > 1000
                 /\ PassesNameFilters(NumericName(text, ms[j]))
           /\ \E j \in 1..Len(ms) :
                 /\ NumericQty(text, ms[j]) = 0
                 /\ PassesNameFilters(NumericName(text, ms[j]))

\* the phrase after the quantity of a match (of either pattern) starts with
\* a word of SKILLS
SkillPhrase(t, m) == SplitWs(Lower(Strip(Group(t, m, 4))))[1] \in SKILLS

NeedWoodcutting ==
    <<"Y","o","u"," ","n","e","e","d"," ","3","5"," ","w","o","o","d",
      "c","u","t","t","i","n","g"," ","t","o"," ","c","o","n","t","i",
      "n","u","e",".">>

\* C14: a quantity, numeric or spelled out, followed by a phrase whose first
\* word is a skill name or abbreviation of SKILLS yields no item: every item
\* returned comes from a mention whose phrase starts with another word, and
\* "You need 35 woodcutting to continue." returns no item named Woodcutting.
C14_SkillMentionsRejected ==
    pc = "extract_items_from_text" =>
        LET nms == NumericMatches(text)
            wms == WordMatches(text)
        IN  /\ \A j \in 1..Len(nms) :
                  SkillPhrase(text, nms[j]) =>
                      NumericStep(text, nms[j], NoItems).out = <<>>
            /\ \A j \in 1..Len(wms) :
                  SkillPhrase(text, wms[j]) =>
                      WordStep(text, wms[j], NoItems).out = <<>>
            /\ \A i \in 1..Len(items) :
                  \/ \E j \in 1..Len(nms) :
                        /\ ~SkillPhrase(text, nms[j])
                        /\ NumericStep(text, nms[j], NoItems).out = <<items[i]>>
                  \/ \E j \in 1..Len(wms) :
                        /\ ~SkillPhrase(text, wms[j])
                        /\ WordStep(text, wms[j], NoItems).out = <<items[i]>>
            /\ text = NeedWoodcutting =>
                  \A i \in 1..Len(items) :
                      items[i].name # <<"W","o","o","d","c","u","t","t","i","n","g">>

\* C14 witness: the text holds a number before a skill name, a quantity word
\* before a skill abbreviation and a number before an item; only the item
\* is returned.
C14_Witness ==
    /\ pc = "extract_items_from_text"
    /\ items # <<>>
    /\ \E j \in 1..Len(NumericMatches(text)) :
          SkillPhrase(text, NumericMatches(text)[j])
    /\ \E j \in 1..Len(WordMatches(text)) :
          SkillPhrase(text, WordMatches(text)[j])

\* the position after a unit word "gp" or "gold" (in any case) at i, or i
AfterUnit(t, i) ==
    IF i + 1 <= Len(t) /\ Lower(SubSeq(t, i, i + 1)) = <<"g","p">> THEN i + 2
    ELSE IF i + 3 <= Len(t) /\ Lower(SubSeq(t, i, i + 3)) = <<"g","o","l","d">>
    THEN i + 4
    ELSE i

\* the position after a hyphen or an en-dash at i, or i
AfterDash(t, i) ==
    IF i <= Len(t) /\ t[i] \in {"-", "ENDASH"} THEN i + 1 ELSE i

\* the free text after the first number, its unit and a dash; <<>> when the
\* text has no number
FreeTextAfterNumber(t) ==
    IF \E i \in 1..Len(t) : t[i] \in Digits
    THEN LET first == CHOOSE i \in 1..Len(t) :
                          /\ t[i] \in Digits
                          /\ \A h \in 1..(i - 1) : t[h] \notin Digits
             unit == RunEnd(t, Whitespace, RunEnd(t, Digits, first))
             dash == RunEnd(t, Whitespace, AfterUnit(t, unit))
             rest == RunEnd(t, Whitespace, AfterDash(t, dash))
         IN  Strip(SubSeq(t, rest, Len(t)))
    ELSE <<>>

ZeroGp == <<"0"," ","g","p">>

\* C15: the note is the free text after the first number, its optional unit
\* "gp" or "gold" and an optional dash; when that text is empty or is a
\* number no note is set, so "0 gp" yields exactly min 0 and max 0 and the
\* unit word is never the note.
C15_NoteAfterUnit ==
    pc = "parse_gp_stack" =>
        LET free == FreeTextAfterNumber(text)
        IN  /\ IF free # <<>> /\ ~IsDigitStr(free)
               THEN DOMAIN gp = {"min", "max", "note"} /\ gp.note = free
               ELSE DOMAIN gp = {"min", "max"}
            /\ text = ZeroGp => gp = [min |-> 0, max |-> 0]

\* the clauses of a sentence: the pieces between its ", " boundaries
Clauses(sentence) ==
    LET raw == StrSplit(sentence, <<",", " ">>)
    IN  [j \in 1..Len(raw) |-> Strip(raw[j])]

BeginsWithActionVerb(clause) ==
    clause # <<>> /\ Lower(SplitWs(clause)[1]) \in action_verbs

\* the clauses from the j-th on, grouped: a clause that is not the first and
\* begins with an action verb opens a group, any other one is joined to the
\* current group by ", "
RECURSIVE GroupClauses(_, _, _)
GroupClauses(cl, j, current) ==
    IF j > Len(cl) THEN <<current>>
    ELSE IF j > 1 /\ BeginsWithActionVerb(cl[j])
    THEN <<current>> \o GroupClauses(cl, j + 1, cl[j])
    ELSE GroupClauses(cl, j + 1,
                      IF j = 1 THEN cl[1] ELSE current \o <<",", " ">> \o cl[j])

\* the non-empty groups as instructions
RECURSIVE AsInstructions(_, _)
AsInstructions(groups, j) ==
    IF j > Len(groups) THEN <<>>
    ELSE (IF Strip(groups[j]) # <<>>
          THEN <<[text |-> Sub(whitespace_run, <<" ">>, Strip(groups[j]))]>>
          ELSE <<>>) \o AsInstructions(groups, j + 1)

RECURSIVE GroupSentences(_, _)
GroupSentences(sentences, j) ==
    IF j > Len(sentences) THEN <<>>
    ELSE AsInstructions(GroupClauses(Clauses(Strip(sentences[j])), 1, <<>>), 1)
         \o GroupSentences(sentences, j + 1)

\* C16: within a sentence a new instruction starts at a ", " boundary exactly
\* when the clause after it is not the first one and begins with an action
\* verb (in any case); every other ", " boundary stays in the instruction as
\* a literal ", "; the last clause is flushed; no instruction text is empty;
\* an empty or whitespace-only text gives no instruction.
C16_SplitAtActionVerbs ==
    pc = "split_into_instructions" =>
        /\ instructions =
              GroupSentences(ReSplit(sentence_boundary, text), 1)
        /\ \A i \in 1..Len(instructions) : instructions[i].text # <<>>
        /\ Strip(text) = <<>> => instructions = <<>>

=============================================================================
